---- MODULE Spec2Model ----
(***************************************************************************)
(* A model of the user-space UDP socket of src/udp/src/lib.rs: UdpSocket   *)
(* with new, send_to and recv_from over a raw IPv4 transport channel.      *)
(*                                                                         *)
(* A byte string is kept as a record [head, pad]: the bytes of head        *)
(* followed by pad zero bytes. This is exact for the byte strings it       *)
(* denotes and keeps payloads near the 16-bit length limit small.          *)
(***************************************************************************)
EXTENDS Integers, Sequences, FiniteSets, TLC

VARIABLES port, pc, cap, rxq, wire, lastSend, lastStep, nSend

vars == <<port, pc, cap, rxq, wire, lastSend, lastStep, nSend>>

----------------------------------------------------------------------------
(* Program constants *)

UDP_HEADER_SIZE == 8

BUFFER_SIZE == 65535

LOCAL_ADDR == <<127, 0, 0, 1>>

\* the modulus of a u16 (total_length as u16, the 16-bit header fields)
U16 == 65536

\* IpNextHeaderProtocols::Udp
IPPROTO_UDP == 17

----------------------------------------------------------------------------
(* Bounds of the model *)

\* send_to calls in one behaviour
MaxSends == 1

\* items waiting on all receive handles together
MaxQueue == 1

\* how far past the largest payload the 16-bit length field can hold the payloads go
MaxOver == 1

\* items the receive handle of one socket yields in one behaviour
MaxStream == 3

----------------------------------------------------------------------------
(* Byte strings *)

Bytes(h, p) == [head |-> h, pad |-> p]

PLen(b) == Len(b.head) + b.pad

\* the first k bytes of b (all of b when k >= PLen(b))
PTake(b, k) ==
    IF k >= PLen(b) THEN b
    ELSE IF k <= Len(b.head) THEN Bytes(SubSeq(b.head, 1, k), 0)
    ELSE Bytes(b.head, k - Len(b.head))

Hello == Bytes(<<104, 101, 108, 108, 111>>, 0)

Empty == Bytes(<<>>, 0)

\* the largest payload whose total length fits the 16-bit length field
MaxPayload == (U16 - 1) - UDP_HEADER_SIZE

Sockets == {1, 2}

Ports == {8888, 9999}

IPs == {LOCAL_ADDR, <<10, 0, 0, 2>>, <<10, 0, 0, 3>>}

\* payloads given to send_to: short ones, and long ones around the limit
SendPayloads ==
    {Empty, Hello} \cup {Bytes(<<1>>, n - 1) : n \in MaxPayload..(MaxPayload + MaxOver)}

\* what a destination (ToSocketAddrs) resolves to
Dests ==
    {[kind |-> "unresolvable", ip |-> LOCAL_ADDR, port |-> 0],
     [kind |-> "none", ip |-> LOCAL_ADDR, port |-> 0]}
        \cup {[kind |-> "v6", ip |-> LOCAL_ADDR, port |-> 8888]}
        \cup {[kind |-> "v4", ip |-> LOCAL_ADDR, port |-> p] : p \in Ports}
        \cup {[kind |-> "v4", ip |-> <<10, 0, 0, 2>>, port |-> 8888]}

\* the caller's buffer lengths given to recv_from
BufLens == {2, BUFFER_SIZE}

----------------------------------------------------------------------------
(* pnet::packet::udp::ipv4_checksum, as send_to and recv_from call it.     *)
(* The sum is a u32 in the library; it stays below 2^32 for every packet   *)
(* of at most 65535 + 8 bytes, so no wrap of the accumulator is modelled.  *)

\* the two big-endian 16-bit words of an IPv4 address
ipv4_word_sum(ip) == (ip[1] * 256 + ip[2]) + (ip[3] * 256 + ip[4])

\* the big-endian 16-bit words of a byte sequence, a trailing odd byte
\* being the high byte of a last word
RECURSIVE sum_be_seq(_)
sum_be_seq(h) ==
    IF Len(h) = 0 THEN 0
    ELSE IF Len(h) = 1 THEN h[1] * 256
    ELSE h[1] * 256 + h[2] + sum_be_seq(SubSeq(h, 3, Len(h)))

\* the words of the datagram with word 3, the checksum field, skipped;
\* the zero bytes of the payload's pad add nothing
sum_be_words(pkt) ==
    pkt.source + pkt.destination + pkt.length + sum_be_seq(pkt.payload.head)

RECURSIVE finalize_checksum(_)
finalize_checksum(sum) ==
    IF sum \div U16 # 0 THEN finalize_checksum((sum \div U16) + (sum % U16))
    ELSE (U16 - 1) - sum

\* the number of bytes of the datagram: the header and the payload
PacketLen(pkt) == UDP_HEADER_SIZE + PLen(pkt.payload)

ipv4_checksum(pkt, source, destination) ==
    finalize_checksum(ipv4_word_sum(source) + ipv4_word_sum(destination)
                      + IPPROTO_UDP + PacketLen(pkt) + sum_be_words(pkt))

----------------------------------------------------------------------------
(* UdpSocket::send_to *)

\* total_length as u16
as_u16(n) == n % U16

\* a slip: the header is left out of the total length
total_length_no_header(payload) == PLen(payload)

total_length(payload) == UDP_HEADER_SIZE + PLen(payload)

\* a slip: the checksum is computed before set_payload has copied the payload
build_packet_checksum_first(p, payload, dest) ==
    LET pkt == [source |-> p,
                destination |-> dest.port,
                length |-> as_u16(total_length(payload)),
                checksum |-> 0,
                payload |-> Bytes(<<>>, PLen(payload))]
    IN  [pkt EXCEPT !.checksum = ipv4_checksum(pkt, LOCAL_ADDR, dest.ip),
                    !.payload = payload]

\* a slip: the two port setters get each other's argument
build_packet_ports_swapped(p, payload, dest) ==
    LET pkt == [source |-> dest.port,
                destination |-> p,
                length |-> as_u16(total_length(payload)),
                checksum |-> 0,
                payload |-> payload]
    IN  [pkt EXCEPT !.checksum = ipv4_checksum(pkt, LOCAL_ADDR, dest.ip)]

\* a slip: the source port is set from the destination
build_packet_source_of_dest(p, payload, dest) ==
    LET pkt == [source |-> dest.port,
                destination |-> dest.port,
                length |-> as_u16(total_length(payload)),
                checksum |-> 0,
                payload |-> payload]
    IN  [pkt EXCEPT !.checksum = ipv4_checksum(pkt, LOCAL_ADDR, dest.ip)]

\* the datagram send_to builds in its buffer of total_length bytes: the
\* setters in their order, the checksum computed over the datagram as it
\* stands after set_payload, its checksum field still zero
build_packet(p, payload, dest) ==
    LET pkt == [source |-> p,
                destination |-> dest.port,
                length |-> as_u16(total_length(payload)),
                checksum |-> 0,
                payload |-> payload]
    IN  [pkt EXCEPT !.checksum = ipv4_checksum(pkt, LOCAL_ADDR, dest.ip)]

\* a slip: an IPv6 destination is sent to like an IPv4 one
send_to_any_family(p, payload, dest, sent) ==
    IF dest.kind = "unresolvable" THEN
        [status |-> "err_resolve", n |-> 0, handed |-> <<>>]
    ELSE IF dest.kind = "none" THEN
        [status |-> "err_invalid_destination", n |-> 0, handed |-> <<>>]
    ELSE LET pkt == build_packet(p, payload, dest)
             call == [pkt |-> pkt, dst |-> dest.ip]
         IN  IF sent THEN [status |-> "ok", n |-> PacketLen(pkt), handed |-> <<call>>]
             ELSE [status |-> "err_send", n |-> 0, handed |-> <<call>>]

\* a slip: a failed send is tried once more
send_to_retry(p, payload, dest, sent) ==
    IF dest.kind = "unresolvable" THEN
        [status |-> "err_resolve", n |-> 0, handed |-> <<>>]
    ELSE IF dest.kind = "none" THEN
        [status |-> "err_invalid_destination", n |-> 0, handed |-> <<>>]
    ELSE IF dest.kind = "v6" THEN
        [status |-> "err_ipv6_unsupported", n |-> 0, handed |-> <<>>]
    ELSE LET pkt == build_packet(p, payload, dest)
             call == [pkt |-> pkt, dst |-> dest.ip]
         IN  IF sent THEN [status |-> "ok", n |-> PacketLen(pkt), handed |-> <<call>>]
             ELSE [status |-> "err_send", n |-> 0, handed |-> <<call, call>>]

\* the outcome of send_to on the socket bound to p; sent is the outcome of
\* the transport's send primitive. handed lists the calls of that primitive.
send_to(p, payload, dest, sent) ==
    IF dest.kind = "unresolvable" THEN
        [status |-> "err_resolve", n |-> 0, handed |-> <<>>]
    ELSE IF dest.kind = "none" THEN
        [status |-> "err_invalid_destination", n |-> 0, handed |-> <<>>]
    ELSE IF dest.kind = "v6" THEN
        [status |-> "err_ipv6_unsupported", n |-> 0, handed |-> <<>>]
    ELSE LET pkt == build_packet(p, payload, dest)
             call == [pkt |-> pkt, dst |-> dest.ip]
         IN  IF sent THEN [status |-> "ok", n |-> PacketLen(pkt), handed |-> <<call>>]
             ELSE [status |-> "err_send", n |-> 0, handed |-> <<call>>]

----------------------------------------------------------------------------
(* UdpSocket::recv_from *)

NoPkt == [source |-> 0, destination |-> 0, length |-> 0, checksum |-> 0, payload |-> Empty]

\* what packet_iter.next() yields: a failure, a packet with an IPv6 source,
\* or a packet with an IPv4 source
ErrItem == [kind |-> "err", src |-> LOCAL_ADDR, pkt |-> NoPkt]

V6Item == [kind |-> "v6", src |-> LOCAL_ADDR, pkt |-> NoPkt]

V4Item(src, pkt) == [kind |-> "v4", src |-> src, pkt |-> pkt]

NoOrigin == [ip |-> <<0, 0, 0, 0>>, port |-> 0]

\* a slip: the copy stops at the end of the buffer and reports what it wrote
io_copy_truncating(payload, c) ==
    IF PLen(payload) <= c THEN [ok |-> TRUE, n |-> PLen(payload), data |-> payload]
    ELSE [ok |-> TRUE, n |-> c, data |-> PTake(payload, c)]

\* io::copy(&mut udp_packet.payload(), &mut buffer) into a buffer of c bytes:
\* write_all fails once the buffer is full
io_copy(payload, c) ==
    IF PLen(payload) <= c THEN [ok |-> TRUE, n |-> PLen(payload), data |-> payload]
    ELSE [ok |-> FALSE, n |-> 0, data |-> PTake(payload, c)]

Continue(why, computed) ==
    [outcome |-> why, computed |-> computed, n |-> 0, origin |-> NoOrigin, data |-> Empty]

\* the return of recv_from for a packet that passed both filters
Matched(item, c, computed, originPort) ==
    LET cp == io_copy(item.pkt.payload, c)
    IN  IF cp.ok
        THEN [outcome |-> "return_ok", computed |-> computed, n |-> cp.n,
              origin |-> [ip |-> item.src, port |-> originPort],
              data |-> cp.data]
        ELSE [outcome |-> "return_err_copy", computed |-> computed, n |-> 0,
              origin |-> NoOrigin, data |-> cp.data]

\* a slip: the port filter is left out
recv_iteration_no_port_filter(p, item, c) ==
    IF item.kind # "v4" THEN Continue("skip_no_match", FALSE)
    ELSE IF item.pkt.checksum # 0
            /\ item.pkt.checksum # ipv4_checksum(item.pkt, item.src, LOCAL_ADDR)
         THEN Continue("skip_checksum", TRUE)
    ELSE Matched(item, c, item.pkt.checksum # 0, item.pkt.source)

\* a slip: the checksum filter is left out
recv_iteration_no_verify(p, item, c) ==
    IF item.kind # "v4" THEN Continue("skip_no_match", FALSE)
    ELSE IF p # item.pkt.destination THEN Continue("skip_port", FALSE)
    ELSE Matched(item, c, FALSE, item.pkt.source)

\* a slip: a zero checksum field is verified like any other
recv_iteration_verify_zero(p, item, c) ==
    IF item.kind # "v4" THEN Continue("skip_no_match", FALSE)
    ELSE IF p # item.pkt.destination THEN Continue("skip_port", FALSE)
    ELSE IF item.pkt.checksum # ipv4_checksum(item.pkt, item.src, LOCAL_ADDR)
         THEN Continue("skip_checksum", TRUE)
    ELSE Matched(item, c, TRUE, item.pkt.source)

\* a slip: the origin's port is read from the destination-port field
recv_iteration_origin_destination(p, item, c) ==
    IF item.kind # "v4" THEN Continue("skip_no_match", FALSE)
    ELSE IF p # item.pkt.destination THEN Continue("skip_port", FALSE)
    ELSE IF item.pkt.checksum # 0
            /\ item.pkt.checksum # ipv4_checksum(item.pkt, item.src, LOCAL_ADDR)
         THEN Continue("skip_checksum", TRUE)
    ELSE Matched(item, c, item.pkt.checksum # 0, item.pkt.destination)

\* a slip: the port filter is inverted
recv_iteration_port_inverted(p, item, c) ==
    IF item.kind # "v4" THEN Continue("skip_no_match", FALSE)
    ELSE IF p = item.pkt.destination THEN Continue("skip_port", FALSE)
    ELSE IF item.pkt.checksum # 0
            /\ item.pkt.checksum # ipv4_checksum(item.pkt, item.src, LOCAL_ADDR)
         THEN Continue("skip_checksum", TRUE)
    ELSE Matched(item, c, item.pkt.checksum # 0, item.pkt.source)

\* a slip: the checksum is recomputed with the source address in both places
recv_iteration_verify_source_twice(p, item, c) ==
    IF item.kind # "v4" THEN Continue("skip_no_match", FALSE)
    ELSE IF p # item.pkt.destination THEN Continue("skip_port", FALSE)
    ELSE IF item.pkt.checksum # 0
            /\ item.pkt.checksum # ipv4_checksum(item.pkt, item.src, item.src)
         THEN Continue("skip_checksum", TRUE)
    ELSE Matched(item, c, item.pkt.checksum # 0, item.pkt.source)

\* a slip: the checksum is recomputed with the loopback address in both places
recv_iteration_verify_loopback(p, item, c) ==
    IF item.kind # "v4" THEN Continue("skip_no_match", FALSE)
    ELSE IF p # item.pkt.destination THEN Continue("skip_port", FALSE)
    ELSE IF item.pkt.checksum # 0
            /\ item.pkt.checksum # ipv4_checksum(item.pkt, LOCAL_ADDR, LOCAL_ADDR)
         THEN Continue("skip_checksum", TRUE)
    ELSE Matched(item, c, item.pkt.checksum # 0, item.pkt.source)

\* one iteration of the loop of recv_from on the socket bound to p, with a
\* buffer of c bytes, for the item the iterator yields
recv_iteration(p, item, c) ==
    IF item.kind # "v4" THEN Continue("skip_no_match", FALSE)
    ELSE IF p # item.pkt.destination THEN Continue("skip_port", FALSE)
    ELSE IF item.pkt.checksum # 0
            /\ item.pkt.checksum # ipv4_checksum(item.pkt, item.src, LOCAL_ADDR)
         THEN Continue("skip_checksum", TRUE)
    ELSE Matched(item, c, item.pkt.checksum # 0, item.pkt.source)

----------------------------------------------------------------------------
(* The environment: what arrives on a receive handle *)

\* the traffic of other senders: source address, source port, payload
Flows ==
    {<<LOCAL_ADDR, 9999, Hello>>, <<LOCAL_ADDR, 8888, Empty>>, <<<<10, 0, 0, 3>>, 9999, Empty>>}

\* a checksum field that is neither zero nor the value v
BadChecksum(v) ==
    LET w == (v + 1) % U16 IN IF w = 0 THEN 1 ELSE w

InjPackets ==
    UNION {
        LET pkt == [source |-> f[2], destination |-> dp,
                    length |-> as_u16(total_length(f[3])), checksum |-> 0, payload |-> f[3]]
            good == ipv4_checksum(pkt, f[1], LOCAL_ADDR)
        IN  {V4Item(f[1], [pkt EXCEPT !.checksum = ck]) : ck \in {0, good, BadChecksum(good)}}
        : f \in Flows, dp \in Ports }

InjItems == InjPackets \cup {ErrItem, V6Item}

QueueTotal == Len(rxq[1]) + Len(rxq[2])

\* the source address a datagram sent to dst arrives with
ArrivalSources(dst) == IF dst = LOCAL_ADDR THEN {LOCAL_ADDR} ELSE IPs \ {LOCAL_ADDR}

----------------------------------------------------------------------------
(* State *)

NoSend ==
    [sock |-> 0, payload |-> Empty, dest |-> [kind |-> "none", ip |-> LOCAL_ADDR, port |-> 0],
     status |-> "none", n |-> 0, handed |-> <<>>]

NoStep ==
    [sock |-> 0, item |-> ErrItem, cap |-> 0] @@ Continue("none", FALSE)

\* UdpSocket::new(port) for each socket
Init ==
    /\ port \in [Sockets -> Ports]
    /\ pc = [s \in Sockets |-> "idle"]
    /\ cap = [s \in Sockets |-> 0]
    /\ rxq = [s \in Sockets |-> <<>>]
    /\ wire = {}
    /\ lastSend = NoSend
    /\ lastStep = NoStep
    /\ nSend = 0

\* a call of send_to on socket s
SendTo(s, payload, dest, sent) ==
    /\ nSend < MaxSends
    /\ LET r == send_to(port[s], payload, dest, sent)
       IN  /\ lastSend' = [sock |-> s, payload |-> payload, dest |-> dest] @@ r
           /\ wire' = IF r.status = "ok" THEN wire \cup {r.handed[1]} ELSE wire
    /\ nSend' = nSend + 1
    /\ UNCHANGED <<port, pc, cap, rxq, lastStep>>

\* the network hands a sent datagram to the receive handle of socket t
Deliver(w, t, src) ==
    /\ w \in wire
    /\ QueueTotal < MaxQueue
    /\ src \in ArrivalSources(w.dst)
    /\ rxq' = [rxq EXCEPT ![t] = Append(@, V4Item(src, w.pkt))]
    /\ wire' = wire \ {w}
    /\ UNCHANGED <<port, pc, cap, lastSend, lastStep, nSend>>

\* other traffic, or a failure, arrives on the receive handle of socket t
Inject(t, item) ==
    /\ QueueTotal < MaxQueue
    /\ rxq' = [rxq EXCEPT ![t] = Append(@, item)]
    /\ UNCHANGED <<port, pc, cap, wire, lastSend, lastStep, nSend>>

\* a call of recv_from on socket s with a buffer of c bytes enters the loop
RecvCall(s, c) ==
    /\ pc[s] = "idle"
    /\ pc' = [pc EXCEPT ![s] = "scanning"]
    /\ cap' = [cap EXCEPT ![s] = c]
    /\ UNCHANGED <<port, rxq, wire, lastSend, lastStep, nSend>>

\* a slip: the packet a call returns is left for the next call
RecvStep_peek_returned(s) ==
    /\ pc[s] = "scanning"
    /\ rxq[s] # <<>>
    /\ LET item == Head(rxq[s])
           r == recv_iteration(port[s], item, cap[s])
           returns == r.outcome \in {"return_ok", "return_err_copy"}
       IN  /\ lastStep' = [sock |-> s, item |-> item, cap |-> cap[s]] @@ r
           /\ pc' = [pc EXCEPT ![s] = IF returns THEN "idle" ELSE "scanning"]
           /\ cap' = [cap EXCEPT ![s] = IF returns THEN 0 ELSE @]
           /\ rxq' = [rxq EXCEPT ![s] = IF r.outcome = "return_ok" THEN @ ELSE Tail(@)]
    /\ UNCHANGED <<port, wire, lastSend, nSend>>

\* a slip: a packet whose copy failed is left for the next call
RecvStep_keep_on_copy_error(s) ==
    /\ pc[s] = "scanning"
    /\ rxq[s] # <<>>
    /\ LET item == Head(rxq[s])
           r == recv_iteration(port[s], item, cap[s])
           returns == r.outcome \in {"return_ok", "return_err_copy"}
       IN  /\ lastStep' = [sock |-> s, item |-> item, cap |-> cap[s]] @@ r
           /\ pc' = [pc EXCEPT ![s] = IF returns THEN "idle" ELSE "scanning"]
           /\ cap' = [cap EXCEPT ![s] = IF returns THEN 0 ELSE @]
           /\ rxq' = [rxq EXCEPT ![s] = IF r.outcome = "return_err_copy" THEN @ ELSE Tail(@)]
    /\ UNCHANGED <<port, wire, lastSend, nSend>>

\* one iteration of the loop: packet_iter.next() blocks until an item is there
RecvStep(s) ==
    /\ pc[s] = "scanning"
    /\ rxq[s] # <<>>
    /\ LET item == Head(rxq[s])
           r == recv_iteration(port[s], item, cap[s])
           returns == r.outcome \in {"return_ok", "return_err_copy"}
       IN  /\ lastStep' = [sock |-> s, item |-> item, cap |-> cap[s]] @@ r
           /\ pc' = [pc EXCEPT ![s] = IF returns THEN "idle" ELSE "scanning"]
           /\ cap' = [cap EXCEPT ![s] = IF returns THEN 0 ELSE @]
    /\ rxq' = [rxq EXCEPT ![s] = Tail(@)]
    /\ UNCHANGED <<port, wire, lastSend, nSend>>

\* the two sockets and the network between them
Next ==
    \/ \E s \in Sockets, payload \in SendPayloads, dest \in Dests, sent \in BOOLEAN :
           SendTo(s, payload, dest, sent)
    \/ \E w \in wire, t \in Sockets, src \in IPs : Deliver(w, t, src)
    \/ \E s \in Sockets, c \in BufLens : RecvCall(s, c)
    \/ \E s \in Sockets : RecvStep(s)

Spec == Init /\ [][Next]_vars

\* the sockets receiving the traffic and the failures of an arbitrary network
RecvNext ==
    \/ \E t \in Sockets, item \in InjItems : Inject(t, item)
    \/ \E s \in Sockets, c \in BufLens : RecvCall(s, c)
    \/ \E s \in Sockets : RecvStep(s)

RecvSpec == Init /\ [][RecvNext]_vars

\* two-byte payloads, to range over the values of the computed checksum
ChecksumPayloads == {Bytes(<<184, b>>, 0) : b \in 0..31}

\* calls of send_to alone, over more payloads
SendNext ==
    \E s \in Sockets, payload \in SendPayloads \cup ChecksumPayloads, dest \in Dests,
       sent \in BOOLEAN :
        SendTo(s, payload, dest, sent)

SendSpec == Init /\ [][SendNext]_vars

\* the items of a stream: the packets of one sender to either port with every
\* kind of checksum field, the packets of another sender to port 8888 that
\* pass the checksum filter, and a failure
StreamItems ==
    {i \in InjPackets : i.src = LOCAL_ADDR /\ i.pkt.source = 9999}
        \cup {i \in InjPackets :
                 /\ i.src # LOCAL_ADDR
                 /\ i.pkt.destination = 8888
                 /\ i.pkt.checksum \in {0, ipv4_checksum(i.pkt, i.src, LOCAL_ADDR)}}
        \cup {ErrItem}

RECURSIVE SeqsUpTo(_, _)
SeqsUpTo(S, n) ==
    IF n = 0 THEN {<<>>}
    ELSE LET shorter == SeqsUpTo(S, n - 1)
         IN  shorter \cup {Append(q, x) : q \in shorter, x \in S}

\* socket 1 with all that its receive handle is going to yield, in order
StreamInit ==
    /\ port \in {f \in [Sockets -> Ports] : f[2] = 8888}
    /\ pc = [s \in Sockets |-> "idle"]
    /\ cap = [s \in Sockets |-> 0]
    /\ rxq \in {[s \in Sockets |-> IF s = 1 THEN q ELSE <<>>] : q \in SeqsUpTo(StreamItems, MaxStream)}
    /\ wire = {}
    /\ lastSend = NoSend
    /\ lastStep = NoStep
    /\ nSend = 0

\* successive calls of recv_from on socket 1
StreamNext ==
    \/ \E c \in BufLens : RecvCall(1, c)
    \/ RecvStep(1)

StreamSpec == StreamInit /\ [][StreamNext]_vars

\* the loop of a call in progress goes on whenever the iterator has an item
LiveStreamSpec == StreamSpec /\ WF_vars(RecvStep(1))

----------------------------------------------------------------------------
(* Shorthands for the last call of send_to and the last iteration of       *)
(* recv_from                                                               *)

Sent == lastSend.status # "none"

Handed == lastSend.handed # <<>>

HandedPkt == lastSend.handed[1].pkt

Stepped == lastStep.outcome # "none"

StepPkt == lastStep.item.pkt

\* the iteration looked at a packet with an IPv4 source addressed to the bound port
StepAddressed ==
    /\ Stepped
    /\ lastStep.item.kind = "v4"
    /\ StepPkt.destination = port[lastStep.sock]

StillScanning == pc[lastStep.sock] = "scanning"

----------------------------------------------------------------------------
(* Claims *)

\* C1 (as stated): a payload of 65528 bytes or more given to send_to with an
\* IPv4 destination fails with a payload-too-large error and the transport's
\* send primitive is not called.
C1_TooLargeRejected ==
    (Sent /\ lastSend.dest.kind = "v4" /\ PLen(lastSend.payload) > MaxPayload)
        => (lastSend.status = "err_payload_too_large" /\ ~Handed)

\* C2 (as stated): when the receive handle reports a failure, recv_from stops
\* scanning and returns a receive error.
C2_FailurePropagated ==
    (Stepped /\ lastStep.item.kind = "err")
        => (lastStep.outcome = "return_err_recv" /\ ~StillScanning)

\* C3: recv_from returns successfully only for a packet whose destination port
\* is the bound port; a packet with another destination port is discarded
\* without an error and the call goes on scanning.
C3_OnlyBoundPort ==
    /\ lastStep.outcome = "return_ok"
         => (lastStep.item.kind = "v4" /\ StepPkt.destination = port[lastStep.sock])
    /\ (Stepped /\ lastStep.item.kind = "v4" /\ StepPkt.destination # port[lastStep.sock])
         => (lastStep.outcome = "skip_port" /\ StillScanning)

C3_Witness ==
    /\ lastStep.outcome = "return_ok"
    /\ StepPkt.destination = port[lastStep.sock]
    /\ port[1] # port[2]

\* C4: a packet addressed to the bound port whose checksum field is nonzero and
\* differs from the checksum recomputed over (its source IP, 127.0.0.1) is not
\* returned and raises no error: the call stays scanning.
C4_BadChecksumDiscarded ==
    (StepAddressed
     /\ StepPkt.checksum # 0
     /\ StepPkt.checksum # ipv4_checksum(StepPkt, lastStep.item.src, LOCAL_ADDR))
        => (lastStep.outcome = "skip_checksum" /\ StillScanning)

C4_Witness ==
    /\ StepAddressed
    /\ StepPkt.checksum # 0
    /\ StepPkt.checksum # ipv4_checksum(StepPkt, lastStep.item.src, LOCAL_ADDR)
    /\ lastStep.outcome = "skip_checksum"
    /\ StillScanning

\* C5: a packet with an IPv4 source addressed to the bound port whose checksum
\* field is 0 is returned, with no checksum computed, whatever its source and
\* payload, when the buffer can hold the payload.
C5_ZeroChecksumAccepted ==
    (StepAddressed /\ StepPkt.checksum = 0 /\ PLen(StepPkt.payload) <= lastStep.cap)
        => (lastStep.outcome = "return_ok" /\ ~lastStep.computed)

\* a returned packet with a zero checksum field that verification would reject
C5_Witness ==
    /\ StepAddressed
    /\ StepPkt.checksum = 0
    /\ ipv4_checksum(StepPkt, lastStep.item.src, LOCAL_ADDR) # 0
    /\ lastStep.item.src # LOCAL_ADDR
    /\ lastStep.outcome = "return_ok"

\* C6: send_to with a destination that resolves to an IPv6 address fails with
\* the unsupported-address-family error and the send primitive is not called.
C6_Ipv6Rejected ==
    (Sent /\ lastSend.dest.kind = "v6")
        => (lastSend.status = "err_ipv6_unsupported" /\ ~Handed)

C6_Witness ==
    /\ lastSend.dest.kind = "v6"
    /\ lastSend.status = "err_ipv6_unsupported"
    /\ PLen(lastSend.payload) > 0

\* C7: for a payload of at most 65527 bytes and an IPv4 destination, the
\* datagram handed to the transport has the length field 8 + len, is 8 + len
\* bytes long and carries the payload unchanged.
C7_LengthField ==
    (Sent /\ lastSend.dest.kind = "v4" /\ PLen(lastSend.payload) <= MaxPayload)
        => /\ Handed
           /\ HandedPkt.length = UDP_HEADER_SIZE + PLen(lastSend.payload)
           /\ PacketLen(HandedPkt) = UDP_HEADER_SIZE + PLen(lastSend.payload)
           /\ HandedPkt.payload = lastSend.payload

C7_Witness ==
    /\ Handed
    /\ PLen(lastSend.payload) = MaxPayload
    /\ HandedPkt.length = U16 - 1

\* C8: the checksum field of every datagram handed to the transport is the
\* pseudo-header checksum over (127.0.0.1, the resolved destination IP):
\* recomputing it over the datagram as sent gives the stored value.
C8_ChecksumRoundTrip ==
    Handed => HandedPkt.checksum = ipv4_checksum(HandedPkt, LOCAL_ADDR, lastSend.dest.ip)

C8_Witness ==
    /\ Handed
    /\ lastSend.payload = Hello
    /\ lastSend.dest.ip # LOCAL_ADDR
    /\ HandedPkt.checksum # 0

\* the datagram of the last send_to, sent to 127.0.0.1 and the port of the
\* receiving socket, is what the last iteration of recv_from looked at, arrived
\* from 127.0.0.1, and the buffer can hold its payload
EndToEnd ==
    /\ Stepped
    /\ lastSend.status = "ok"
    /\ lastSend.dest = [kind |-> "v4", ip |-> LOCAL_ADDR, port |-> port[lastStep.sock]]
    /\ PLen(lastSend.payload) <= MaxPayload
    /\ lastStep.item = V4Item(LOCAL_ADDR, HandedPkt)
    /\ lastStep.cap >= PLen(lastSend.payload)

\* C9: a datagram sent from the socket bound to P to 127.0.0.1:Q and delivered
\* with source 127.0.0.1 to the socket bound to Q is returned by recv_from with
\* the same payload, n the payload's length and the origin 127.0.0.1:P.
C9_Loopback ==
    EndToEnd
        => /\ lastStep.outcome = "return_ok"
           /\ lastStep.data = lastSend.payload
           /\ lastStep.n = PLen(lastSend.payload)
           /\ lastStep.origin = [ip |-> LOCAL_ADDR, port |-> port[lastSend.sock]]

\* the case of the specification: 9999 sends "hello" to 127.0.0.1:8888
C9_Witness ==
    /\ EndToEnd
    /\ port[lastSend.sock] = 9999
    /\ port[lastStep.sock] = 8888
    /\ lastSend.payload = Hello
    /\ lastStep.outcome = "return_ok"
    /\ lastStep.n = 5
    /\ lastStep.origin.port = 9999

\* C10: when recv_from returns (n, origin), n is the length of the matched
\* packet's payload, the first n bytes of the buffer are that payload, and
\* origin is the matched packet's source IP and source port.
C10_ResultOfMatched ==
    lastStep.outcome = "return_ok"
        => /\ lastStep.n = PLen(StepPkt.payload)
           /\ PTake(lastStep.data, lastStep.n) = StepPkt.payload
           /\ lastStep.origin = [ip |-> lastStep.item.src, port |-> StepPkt.source]

C10_Witness ==
    /\ lastStep.outcome = "return_ok"
    /\ lastStep.n = 5
    /\ lastStep.data = Hello
    /\ lastStep.origin.port # port[lastStep.sock]


\* the last iteration looked at a packet that passes the port filter and the
\* checksum filter
StepPassesFilters ==
    /\ StepAddressed
    /\ \/ StepPkt.checksum = 0
       \/ StepPkt.checksum = ipv4_checksum(StepPkt, lastStep.item.src, LOCAL_ADDR)

\* C11: a packet that passes both filters and whose payload is longer than the
\* caller's buffer makes recv_from return an error; a successful return never
\* carries a byte count short of the payload.
C11_ShortBufferFails ==
    /\ (StepPassesFilters /\ PLen(StepPkt.payload) > lastStep.cap)
         => lastStep.outcome = "return_err_copy"
    /\ lastStep.outcome = "return_ok" => lastStep.n = PLen(StepPkt.payload)

C11_Witness ==
    /\ StepPassesFilters
    /\ StepPkt.payload = Hello
    /\ lastStep.cap = 2
    /\ lastStep.outcome = "return_err_copy"
    /\ lastStep.data = Bytes(<<104, 101>>, 0)


\* C12 (as stated): the checksum field 0 means "no checksum", so send_to never
\* hands the transport a datagram whose checksum field is 0.
C12_NeverZeroChecksum ==
    Handed => HandedPkt.checksum # 0


\* C13: a call of send_to whose destination resolves to an IPv4 address calls
\* the transport's send primitive exactly once, with the datagram built from
\* the bound port, the destination's port and the payload and with the
\* destination's IP; it returns the transport's byte count, or a send error
\* when the transport fails. No other call of send_to reaches the primitive.
C13_OneAttempt ==
    /\ (Sent /\ lastSend.dest.kind = "v4")
         => /\ Len(lastSend.handed) = 1
            /\ lastSend.handed[1].dst = lastSend.dest.ip
            /\ HandedPkt.source = port[lastSend.sock]
            /\ HandedPkt.destination = lastSend.dest.port
            /\ HandedPkt.payload = lastSend.payload
            /\ lastSend.status \in {"ok", "err_send"}
            /\ lastSend.status = "ok" => lastSend.n = PacketLen(HandedPkt)
    /\ (Sent /\ lastSend.dest.kind # "v4") => Len(lastSend.handed) = 0

\* the transport failed: a send error after one call of the primitive
C13_Witness ==
    /\ lastSend.dest.kind = "v4"
    /\ lastSend.status = "err_send"
    /\ Len(lastSend.handed) = 1


\* the item is a packet with an IPv4 source, addressed to port p, whose
\* checksum field is 0 or verifies
Matches(p, item) ==
    /\ item.kind = "v4"
    /\ item.pkt.destination = p
    /\ \/ item.pkt.checksum = 0
       \/ item.pkt.checksum = ipv4_checksum(item.pkt, item.src, LOCAL_ADDR)

\* a matching packet that the buffer of the call in progress can hold is among
\* the items the receive handle of socket 1 has yet to yield
MatchAhead ==
    \E i \in 1..Len(rxq[1]) :
        Matches(port[1], rxq[1][i]) /\ PLen(rxq[1][i].pkt.payload) <= cap[1]

\* an iteration of the loop of socket 1 takes the first item waiting; the
\* call ends with it exactly when it matches, and goes on scanning otherwise
EndsAtFirstMatch ==
    rxq'[1] # rxq[1]
        => /\ pc[1] = "scanning"
           /\ lastStep'.item = Head(rxq[1])
           /\ rxq'[1] = Tail(rxq[1])
           /\ (pc'[1] = "idle") = Matches(port[1], Head(rxq[1]))
           /\ (pc'[1] = "scanning") = ~Matches(port[1], Head(rxq[1]))

C15_PortImmutable ==
    /\ [][port' = port]_vars
    /\ [](Handed => /\ HandedPkt.source = port[lastSend.sock]
                    /\ HandedPkt.destination = lastSend.dest.port)
    /\ [](lastStep.outcome = "return_ok" => StepPkt.destination = port[lastStep.sock])

\* after a send_to and a successful recv_from, between two different ports
C15_Witness ==
    /\ Handed
    /\ lastStep.outcome = "return_ok"
    /\ port[lastSend.sock] # lastSend.dest.port
    /\ HandedPkt.source = port[lastSend.sock]
    /\ lastStep.sock # lastSend.sock


\* C16: the checksum of a packet is the same with its two address arguments
\* exchanged, so recv_from, which verifies with (source IP, 127.0.0.1),
\* discards exactly the packets that verification with (127.0.0.1, source IP)
\* discards.
C16_AddressOrder ==
    /\ (Stepped /\ lastStep.item.kind = "v4")
         => \A a \in IPs, b \in IPs :
                ipv4_checksum(StepPkt, a, b) = ipv4_checksum(StepPkt, b, a)
    /\ StepAddressed
         => (lastStep.outcome = "skip_checksum")
              = (/\ StepPkt.checksum # 0
                 /\ StepPkt.checksum # ipv4_checksum(StepPkt, LOCAL_ADDR, lastStep.item.src))

\* a packet from another address, returned because its checksum verifies
C16_Witness ==
    /\ StepAddressed
    /\ lastStep.item.src # LOCAL_ADDR
    /\ StepPkt.checksum # 0
    /\ StepPkt.checksum = ipv4_checksum(StepPkt, LOCAL_ADDR, lastStep.item.src)
    /\ lastStep.outcome = "return_ok"
    /\ lastStep.computed


\* the datagram of the last successful send_to, sent to the port of the
\* receiving socket, is what the last iteration of recv_from looked at
PeerCase ==
    /\ Stepped
    /\ lastSend.status = "ok"
    /\ lastSend.dest.kind = "v4"
    /\ lastSend.dest.port = port[lastStep.sock]
    /\ lastStep.item.kind = "v4"
    /\ StepPkt = HandedPkt

\* the addresses a and b weigh the same in a one's-complement sum
SameWeight(a, b) == ipv4_word_sum(a) % (U16 - 1) = ipv4_word_sum(b) % (U16 - 1)

\* C17: a datagram built by send_to for the destination IP D and arriving with
\* the source IP S passes the checksum filter of recv_from when S = D =
\* 127.0.0.1; in general it is discarded, the receiver still scanning, exactly
\* when its checksum field is nonzero and S and D weigh differently in the
\* sum, which happens for addresses other than the loopback.
C17_LoopbackOnly ==
    /\ (PeerCase /\ lastStep.item.src = LOCAL_ADDR /\ lastSend.dest.ip = LOCAL_ADDR)
         => lastStep.outcome \in {"return_ok", "return_err_copy"}
    /\ PeerCase
         => (lastStep.outcome = "skip_checksum")
              = (/\ HandedPkt.checksum # 0
                 /\ ~SameWeight(lastStep.item.src, lastSend.dest.ip))
    /\ (PeerCase /\ lastStep.outcome = "skip_checksum") => StillScanning

\* sent to 10.0.0.2, arrived from 10.0.0.3: discarded, the receiver blocked
C17_Witness ==
    /\ PeerCase
    /\ lastSend.dest.ip = <<10, 0, 0, 2>>
    /\ lastStep.item.src = <<10, 0, 0, 3>>
    /\ HandedPkt.checksum # 0
    /\ HandedPkt.checksum # ipv4_checksum(HandedPkt, lastStep.item.src, LOCAL_ADDR)
    /\ lastStep.outcome = "skip_checksum"
    /\ StillScanning


\* C18: over successive calls of recv_from every item of the stream is taken
\* once, from the front, by an iteration of a call in progress; that call
\* returns it exactly when it matches (and fits the buffer), and nothing taken
\* comes back: the packets returned are the matching ones in arrival order.
C18_EachPacketOnce ==
    [][/\ pc[1] = "idle" => rxq'[1] = rxq[1]
       /\ pc[1] = "scanning"
            => /\ rxq[1] # <<>>
               /\ rxq'[1] = Tail(rxq[1])
               /\ lastStep'.sock = 1
               /\ lastStep'.item = Head(rxq[1])
               /\ (lastStep'.outcome = "return_ok")
                    = (/\ Matches(port[1], Head(rxq[1]))
                       /\ PLen(Head(rxq[1]).pkt.payload) <= cap[1])]_vars

\* a call has returned a packet and the next call is about to return the
\* matching packet that arrived after it
C18_Witness ==
    /\ lastStep.outcome = "return_ok"
    /\ pc[1] = "scanning"
    /\ rxq[1] # <<>>
    /\ Matches(port[1], Head(rxq[1]))
    /\ PLen(Head(rxq[1]).pkt.payload) <= cap[1]
    /\ Head(rxq[1]) # lastStep.item

\* C19: a call of recv_from that fails because the matched payload does not
\* fit the buffer has taken the matched packet from the stream: the next call
\* starts at the item after it.
C19_FailedCopyConsumes ==
    [][(pc[1] = "scanning" /\ pc'[1] = "idle" /\ lastStep'.outcome = "return_err_copy")
         => /\ rxq[1] # <<>>
            /\ lastStep'.item = Head(rxq[1])
            /\ Matches(port[1], Head(rxq[1]))
            /\ PLen(Head(rxq[1]).pkt.payload) > cap[1]
            /\ rxq'[1] = Tail(rxq[1])]_vars

\* after the failed call, a call with a large buffer is under way and the item
\* it is about to take is another, matching, packet
C19_Witness ==
    /\ lastStep.outcome = "return_err_copy"
    /\ pc[1] = "scanning"
    /\ cap[1] = BUFFER_SIZE
    /\ rxq[1] # <<>>
    /\ Head(rxq[1]) # lastStep.item
    /\ Matches(port[1], Head(rxq[1]))

====
